---------------------------- MODULE Spec2Model ----------------------------
(***************************************************************************)
(* Model of pyop2/gpu/tile.py: TilingConfiguration, the analytic cost     *)
(* model of AutoTiler, its candidate generator (get_candiate_configs), the *)
(* measurement loop of AutoTiler.__call__, and tiled_transform with the    *)
(* stage tagging it starts with.                                           *)
(*                                                                         *)
(* Python floats are modelled by exact rationals [num, den] in lowest      *)
(* terms; float("inf") is the record Inf (den = 0).  The two places where  *)
(* double rounding changes an integer result in the modelled range are     *)
(* modelled as the doubles behave (see blocks_per_sm).                     *)
(***************************************************************************)
EXTENDS Integers, Sequences, FiniteSets, TLC

VARIABLES
    \* AutoTiler attributes (self.nbasis, self.nquad, ...)
    nbasis, nquad, num_const_matrices, num_func_eval_vars, num_candidate_knls,
    \* get_candiate_configs: its locals at return, and the returned list
    gpc, tiles, params, candidates,
    \* one evaluation of the cost model on a configuration
    qpc, qcfg, q_barriers, q_warps, q_efficiency, q_time,
    \* AutoTiler.__call__
    pc, written, mem, copied_args, tiling_idx, kernel, round, runtimes,
    exec_time, best_performing_time, best_performing_config, result,
    \* the device: launches issued and not yet completed, the time the device
    \* takes per launch of the current executable, and the elapsed times
    \* between the event pairs of the current candidate
    outstanding, timing, elapsed,
    \* history of the run: the calls of tiled_transform, and per measured
    \* candidate its launches, its recorded time and what its first launch
    \* found in the buffers it was passed
    transform_calls, launch_count, time_log, first_seen,
    \* one call of tiled_transform: its arguments (tiling_config and the
    \* instructions of kernel), the locals of the stage tagging loop, and the
    \* exception the call ended with
    tpc, tiling_config, instructions, insn_idx, new_insns, done, exc

transVars == <<tpc, tiling_config, instructions, insn_idx, new_insns, done,
               exc>>
genVars == <<gpc, tiles, params, candidates>>
queryVars == <<qpc, qcfg, q_barriers, q_warps, q_efficiency, q_time>>
shapeVars == <<nbasis, nquad, num_const_matrices, num_func_eval_vars,
               num_candidate_knls>>
callVars == <<pc, written, mem, copied_args, tiling_idx, kernel, round,
              runtimes, exec_time, best_performing_time,
              best_performing_config, result, outstanding, timing, elapsed,
              transform_calls, launch_count, time_log, first_seen>>
vars == <<shapeVars, genVars, queryVars, callVars, transVars>>

-----------------------------------------------------------------------------
(* Bounds of the model *)

MaxBasis == 4
MaxQuad == 6
MaxConstMatrices == 2
MaxEvalVars == 2
MaxCandidates == 3
MaxTile == 3
MaxQueryThreads == 3
MaxTime == 2
MaxField == 2
MaxInsns == 3

(* Program constants *)

WARP_SIZE == 32
nrounds == 15
nwarmup == 5
PlaceholderCells == 10000
\* Python's None
None == [none |-> TRUE]

\* the five done_with_... flags of the stage tagging loop, all False
NotDone ==
    [jacobi_eval |-> FALSE, quad_init |-> FALSE, quad_reduction |-> FALSE,
     quad_wrap_up |-> FALSE, basis_reduction |-> FALSE]

-----------------------------------------------------------------------------
(* Exact arithmetic standing for Python's float arithmetic *)

RECURSIVE GCD(_, _)
GCD(a, b) == IF b = 0 THEN a ELSE GCD(b, a % b)

Rat(n, d) == LET g == GCD(n, d) IN [num |-> n \div g, den |-> d \div g]

FromInt(n) == [num |-> n, den |-> 1]

Inf == [num |-> 1, den |-> 0]

IsInf(a) == a.den = 0

IsZero(a) == a.den # 0 /\ a.num = 0

\* a * b, cancelling across before multiplying
RMul(a, b) ==
    LET g1 == GCD(a.num, b.den)
        g2 == GCD(b.num, a.den)
    IN  IF a.num = 0 \/ b.num = 0 THEN FromInt(0)
        ELSE [num |-> (a.num \div g1) * (b.num \div g2),
              den |-> (a.den \div g2) * (b.den \div g1)]

\* a / b for b # 0
RDiv(a, b) == RMul(a, [num |-> b.den, den |-> b.num])

\* 1 - a
OneMinus(a) == Rat(a.den - a.num, a.den)

\* a < b as float comparison does it, inf included
RLess(a, b) ==
    IF IsInf(a) THEN FALSE
    ELSE IF IsInf(b) THEN TRUE
    ELSE a.num * b.den < b.num * a.den

RLeq(a, b) == ~RLess(b, a)

\* math.ceil(a/b) and math.ceil(math.sqrt(n)) on positive integers
Ceil(a, b) == (a + b - 1) \div b

CeilSqrt(n) == CHOOSE r \in 1..n : r * r >= n /\ (r - 1) * (r - 1) < n

Max(a, b) == IF a >= b THEN a ELSE b

Min(a, b) == IF a <= b THEN a ELSE b

Abs(a) == IF a >= 0 THEN a ELSE 0 - a

RECURSIVE SumSeq(_)
SumSeq(s) == IF s = <<>> THEN 0 ELSE Head(s) + SumSeq(Tail(s))

-----------------------------------------------------------------------------
(* TilingConfiguration *)

TilingConfiguration(ncells, nthreads, t1_r, t1_c, t2_r, t2_c, coords, input, mats, weights, tiled_in, tiled_wt) ==
    [ncells_per_block |-> ncells,
     nthreads_per_cell |-> nthreads,
     matvec1_row_tile_length |-> t1_r,
     matvec1_col_tile_length |-> t1_c,
     matvec2_row_tile_length |-> t2_r,
     matvec2_col_tile_length |-> t2_c,
     load_coordinates_to_shared |-> coords,
     load_input_to_shared |-> input,
     load_mats_to_shared |-> mats,
     load_quad_weights_to_shared |-> weights,
     tiled_prefetch_of_inputs |-> tiled_in,
     tiled_prefetch_of_quad_weights |-> tiled_wt]

\* the configuration get_candiate_configs builds for a tile
CandidateConfig(cells, threads, tile) ==
    TilingConfiguration(cells, threads, tile[1], tile[2], tile[3], tile[4],
                        FALSE, FALSE, TRUE, TRUE, FALSE, FALSE)

-----------------------------------------------------------------------------
(* The cost model *)

\* (C12) the quotients rounded down
get_local_barriers_Floor(t1_r, t1_c, t2_r, t2_c) ==
    (nquad \div t1_r) * (nbasis \div t1_c)
    + (nbasis \div t2_r) * (nquad \div t2_c)

get_local_barriers(t1_r, t1_c, t2_r, t2_c) ==
    Ceil(nquad, t1_r) * Ceil(nbasis, t1_c)
    + Ceil(nbasis, t2_r) * Ceil(nquad, t2_c)

\* shared memory used per block, in doubles (before the scaling by 8e-3)
shared_usage(cfg) ==
    num_const_matrices
        * Max(cfg.matvec1_row_tile_length * cfg.matvec1_col_tile_length,
              cfg.matvec2_row_tile_length * cfg.matvec2_col_tile_length)
    + nquad
    + num_func_eval_vars * nquad * cfg.ncells_per_block

\* 96 // (s * 8e-3) in double arithmetic: floor(12000 / s), except where
\* s * 8e-3 rounds above the exact product (s = 400 and s = 800 are the only
\* such s below 6000 where the quotient is affected)
FloorDiv96(s) ==
    IF s \in {400, 800} THEN (12000 \div s) - 1 ELSE 12000 \div s

\* min(96 // shared_usage if shared_usage < 48 else 0, 32), shared_usage in KB
blocks_per_sm(cfg) ==
    LET s == shared_usage(cfg)
    IN  Min(IF s < 6000 THEN FloorDiv96(s) ELSE 0, 32)

warps_per_block(cfg) ==
    (cfg.nthreads_per_cell * cfg.ncells_per_block) \div 32

theoretical_warps_per_sm(cfg) == blocks_per_sm(cfg) * warps_per_block(cfg)

wasted_work(cfg) ==
    LET threads_per_cell == cfg.nthreads_per_cell
        t1_r == cfg.matvec1_row_tile_length
        t2_r == cfg.matvec2_row_tile_length
    IN  nbasis * ((t1_r % threads_per_cell) * (nquad \div t1_r)
                  + ((nquad % t1_r) % threads_per_cell))
        + nquad * ((t2_r % threads_per_cell) * (nbasis \div t2_r)
                   + ((nbasis % t2_r) % threads_per_cell))

wasted_work_fraction(cfg) == Rat(wasted_work(cfg), 2 * nquad * nbasis)

warp_mismatch_factor(cfg) ==
    LET threads_in_block == cfg.nthreads_per_cell * cfg.ncells_per_block
    IN  Rat(threads_in_block,
            threads_in_block + (WARP_SIZE - (threads_in_block % WARP_SIZE)))

get_work_efficiency(cfg) ==
    RMul(warp_mismatch_factor(cfg), OneMinus(wasted_work_fraction(cfg)))

actual_warps_per_sm(cfg) ==
    IF theoretical_warps_per_sm(cfg) = 0 THEN FromInt(0)
    ELSE RMul(FromInt(theoretical_warps_per_sm(cfg)), get_work_efficiency(cfg))

\* (C13) the barriers divided by the effective warps, not by the blocks
estimated_exec_time_PerWarp(cfg) ==
    LET n_w == actual_warps_per_sm(cfg)
        n_lb == get_local_barriers(cfg.matvec1_row_tile_length,
                                   cfg.matvec1_col_tile_length,
                                   cfg.matvec2_row_tile_length,
                                   cfg.matvec2_col_tile_length)
    IN  IF IsZero(n_w) THEN Inf ELSE RDiv(FromInt(n_lb), n_w)

estimated_exec_time(cfg) ==
    LET n_c == cfg.ncells_per_block
        n_t == cfg.nthreads_per_cell
        n_w == actual_warps_per_sm(cfg)
        n_lb == get_local_barriers(cfg.matvec1_row_tile_length,
                                   cfg.matvec1_col_tile_length,
                                   cfg.matvec2_row_tile_length,
                                   cfg.matvec2_col_tile_length)
        n_blocks == RDiv(RMul(n_w, FromInt(32)), FromInt(n_t * n_c))
    IN  IF IsZero(n_w) THEN Inf
        ELSE RDiv(FromInt(n_lb), n_blocks)



-----------------------------------------------------------------------------
(* get_candiate_configs *)

\* the dict threads_to_cells, in its insertion (iteration) order
threads_to_cells ==
    << [threads |-> 9, cells |-> <<7>>],
       [threads |-> 8, cells |-> <<4, 8, 16>>],
       [threads |-> 7, cells |-> <<9>>],
       [threads |-> 4, cells |-> <<8, 16>>],
       [threads |-> 3, cells |-> <<21>>],
       [threads |-> 2, cells |-> <<16, 32, 64>>],
       [threads |-> 1, cells |-> <<32, 64>> ] >>

\* (C8) the filter with the 20% bound included
FootprintsClose_Inclusive(t1_r, t1_c, t2_r, t2_c) ==
    5 * Abs(t1_r * t1_c - t2_r * t2_c) <= Max(t1_r * t1_c, t2_c * t2_r)

\* the condition under which a tile shape is appended to tiles
FootprintsClose(t1_r, t1_c, t2_r, t2_c) ==
    5 * Abs(t1_r * t1_c - t2_r * t2_c) < Max(t1_r * t1_c, t2_c * t2_r)

\* the quadruples of the four nested loops, in the order the loops visit them
AllTiles ==
    LET nI == CeilSqrt(nbasis)
        nJ == CeilSqrt(nquad)
    IN  [n \in 1..(nI * nJ * nI * nJ) |->
            LET m == n - 1
                i == (m \div (nJ * nI * nJ)) + 1
                j == ((m \div (nI * nJ)) % nJ) + 1
                k == ((m \div nJ) % nI) + 1
                l == (m % nJ) + 1
            IN  << Ceil(nquad, j), Ceil(nbasis, i),
                   Ceil(nbasis, k), Ceil(nquad, l) >>]

IsClose(T) == FootprintsClose(T[1], T[2], T[3], T[4])

UnsortedTiles == SelectSeq(AllTiles, IsClose)

\* the position of entry i of a list with these keys after a stable sort
\* ascending by key (list.sort(key=...); the keys are rationals)
RankOf(keys, i) ==
    Cardinality({j \in 1..Len(keys) :
                    \/ RLess(keys[j], keys[i])
                    \/ j < i /\ ~RLess(keys[i], keys[j])}) + 1

StableSort(s, keys) ==
    CHOOSE r \in
        { [p \in 1..Len(s) |-> s[CHOOSE i \in 1..Len(s) : rank[i] = p]] :
            rank \in { [i \in 1..Len(keys) |-> RankOf(keys, i)] } } : TRUE

TileKeys(u) ==
    [i \in 1..Len(u) |->
        FromInt(get_local_barriers(u[i][1], u[i][2], u[i][3], u[i][4]))]

SortTiles(u) ==
    CHOOSE r \in { StableSort(u, k) : k \in {TileKeys(u)} } : TRUE

\* (C9) the inner loop keeping the first viable cells value
RECURSIVE BestCells_First(_, _, _, _)
BestCells_First(tile, threads, cells, n) ==
    IF n = 0 THEN PlaceholderCells
    ELSE LET best == BestCells_First(tile, threads, cells, n - 1)
         IN  IF /\ best = PlaceholderCells
                /\ RLess(estimated_exec_time(CandidateConfig(cells[n], threads, tile)),
                         estimated_exec_time(CandidateConfig(best, threads, tile)))
             THEN cells[n]
             ELSE best

\* the inner loop over threads_to_cells[threads]: best_cells after visiting
\* the first n entries of cells
RECURSIVE BestCells(_, _, _, _)
BestCells(tile, threads, cells, n) ==
    IF n = 0 THEN PlaceholderCells
    ELSE LET best == BestCells(tile, threads, cells, n - 1)
         IN  IF RLess(estimated_exec_time(CandidateConfig(cells[n], threads, tile)),
                      estimated_exec_time(CandidateConfig(best, threads, tile)))
             THEN cells[n]
             ELSE best

\* (C19) the loop over threads_to_cells without the test of best_cells
RECURSIVE ParamsOfTile_KeepPlaceholder(_, _)
ParamsOfTile_KeepPlaceholder(tile, n) ==
    IF n = 0 THEN <<>>
    ELSE LET e == threads_to_cells[n]
             best_cells == BestCells(tile, e.threads, e.cells, Len(e.cells))
         IN  ParamsOfTile_KeepPlaceholder(tile, n - 1)
             \o <<CandidateConfig(best_cells, e.threads, tile)>>

\* the configurations appended for one tile, in the order of threads_to_cells
RECURSIVE ParamsOfTile(_, _)
ParamsOfTile(tile, n) ==
    IF n = 0 THEN <<>>
    ELSE LET e == threads_to_cells[n]
             best_cells == BestCells(tile, e.threads, e.cells, Len(e.cells))
         IN  ParamsOfTile(tile, n - 1)
             \o (IF best_cells # PlaceholderCells
                 THEN <<CandidateConfig(best_cells, e.threads, tile)>>
                 ELSE <<>>)

RECURSIVE UnsortedParams(_, _)
UnsortedParams(ts, n) ==
    IF n = 0 THEN <<>>
    ELSE UnsortedParams(ts, n - 1) \o ParamsOfTile(ts[n], Len(threads_to_cells))

\* (C7) params left in the order they were built
SortParams_Unsorted(ps) == ps

ParamKeys(ps) == [i \in 1..Len(ps) |-> estimated_exec_time(ps[i])]

SortParams(ps) ==
    CHOOSE r \in { StableSort(ps, k) : k \in {ParamKeys(ps)} } : TRUE

\* params[:num_candidate_knls]
Truncate(ps, n) == SubSeq(ps, 1, Min(n, Len(ps)))

\* run on its own (pc = "idle") or from the loop header of __call__
get_candiate_configs ==
    /\ gpc = "start"
    /\ pc \in {"idle", "candidates"}
    /\ \E u \in {UnsortedTiles} :
       \E ts \in {SortTiles(u)} :
       \E up \in {UnsortedParams(ts, Len(ts))} :
       \E ps \in {SortParams(up)} :
          /\ tiles' = ts
          /\ params' = ps
          /\ candidates' = Truncate(ps, num_candidate_knls)
    /\ gpc' = "done"
    /\ pc' = IF pc = "candidates" THEN "loop" ELSE pc
    /\ UNCHANGED <<transVars, shapeVars, queryVars>>
    /\ UNCHANGED <<written, mem, copied_args, tiling_idx, kernel, round,
                   runtimes, exec_time, best_performing_time,
                   best_performing_config, result, outstanding, timing,
                   elapsed, transform_calls, launch_count, time_log,
                   first_seen>>

-----------------------------------------------------------------------------
(* The kernels the generator is run on *)

\* kernels as <<nbasis, nquad, num_const_matrices, num_func_eval_vars>>
SmallShapes == (1..MaxBasis) \X (1..MaxQuad)

SmallKernels ==
    SmallShapes \X (1..MaxConstMatrices) \X (1..MaxEvalVars)

\* a kernel whose evaluation variables exhaust the shared memory of a block
\* of 32 cells
LargeKernels == { << <<1, 64>>, 1, 3 >> }

IdleQuery ==
    /\ qpc = "idle" /\ qcfg = None
    /\ q_barriers = 0 /\ q_warps = 0
    /\ q_efficiency = FromInt(0) /\ q_time = FromInt(0)

IdleGen ==
    /\ gpc = "start" /\ tiles = <<>> /\ params = <<>> /\ candidates = <<>>

IdleCall ==
    /\ pc = "idle"
    /\ written = <<>> /\ mem = <<>> /\ copied_args = <<>>
    /\ tiling_idx = 0 /\ kernel = None /\ round = 0 /\ runtimes = <<>>
    /\ exec_time = Inf
    /\ best_performing_time = Inf /\ best_performing_config = None
    /\ result = None
    /\ outstanding = 0 /\ timing = None /\ elapsed = <<>>
    /\ transform_calls = <<>> /\ launch_count = <<>> /\ time_log = <<>>
    /\ first_seen = <<>>

IdleTrans ==
    /\ tpc = "idle" /\ tiling_config = None /\ instructions = <<>>
    /\ insn_idx = 0 /\ new_insns = <<>>
    /\ done = NotDone
    /\ exc = None

\* the numbers of candidates asked for, one of them more than there are
CandidateCounts == (0..MaxCandidates) \cup {1000}

InitGen ==
    /\ \E k \in SmallKernels \cup LargeKernels :
          /\ nbasis = k[1][1] /\ nquad = k[1][2]
          /\ num_const_matrices = k[2]
          /\ num_func_eval_vars = k[3]
    /\ num_candidate_knls \in CandidateCounts
    /\ IdleGen /\ IdleQuery /\ IdleCall /\ IdleTrans

NextGen == get_candiate_configs

SpecGen == InitGen /\ [][NextGen]_vars


-----------------------------------------------------------------------------
(* The cost model applied to one configuration *)

QueryCells == {1, 7, 32, 64}

QueryThreads == (1..MaxQueryThreads) \cup {9, WARP_SIZE}

\* tile shapes covering the whole of a 3 x 6 kernel, next to the small ones
QueryTiles == { <<6, 3, 3, 6>> }

QueryConfigs ==
    { TilingConfiguration(c, t, T[1], T[2], T[3], T[4],
                          FALSE, FALSE, TRUE, TRUE, FALSE, FALSE) :
        c \in QueryCells, t \in QueryThreads,
        T \in ((1..MaxTile) \X (1..MaxTile) \X (1..MaxTile) \X (1..MaxTile))
                 \cup QueryTiles }

EvaluateConfig ==
    /\ qpc = "idle"
    /\ \E cfg \in QueryConfigs :
          /\ qcfg' = cfg
          /\ q_barriers' = get_local_barriers(cfg.matvec1_row_tile_length,
                                              cfg.matvec1_col_tile_length,
                                              cfg.matvec2_row_tile_length,
                                              cfg.matvec2_col_tile_length)
          /\ q_warps' = theoretical_warps_per_sm(cfg)
          /\ q_efficiency' = get_work_efficiency(cfg)
          /\ q_time' = estimated_exec_time(cfg)
    /\ qpc' = "done"
    /\ UNCHANGED <<transVars, shapeVars, genVars, callVars>>

\* a kernel whose blocks of one cell use 48 KB of shared memory, a few
\* doubles more or less with the tile
LargeShapes == { <<3, 1998>> }

InitCost ==
    /\ \E s \in SmallShapes \cup LargeShapes : nbasis = s[1] /\ nquad = s[2]
    /\ num_const_matrices = MaxConstMatrices
    /\ num_func_eval_vars = MaxEvalVars
    /\ num_candidate_knls = 0
    /\ IdleGen /\ IdleQuery /\ IdleCall /\ IdleTrans

NextCost == EvaluateConfig

SpecCost == InitCost /\ [][NextCost]_vars

-----------------------------------------------------------------------------
(* Construction of a TilingConfiguration from arbitrary arguments, and its *)
(* first use by the cost model                                             *)

\* values passed for the six integer fields
FieldValues == 0..MaxField

\* values passed for the six flags
FlagValues ==
    { <<FALSE, FALSE, TRUE, TRUE, FALSE, FALSE>>,
      <<TRUE, FALSE, TRUE, TRUE, FALSE, FALSE>> }

\* TilingConfiguration(...): __init__ hands its arguments to the record
NewTilingConfiguration ==
    /\ qpc = "idle"
    /\ \E c \in FieldValues, t \in FieldValues,
          T \in FieldValues \X FieldValues \X FieldValues \X FieldValues,
          F \in FlagValues :
          qcfg' = TilingConfiguration(c, t, T[1], T[2], T[3], T[4],
                                      F[1], F[2], F[3], F[4], F[5], F[6])
    /\ qpc' = "built"
    /\ UNCHANGED <<q_barriers, q_warps, q_efficiency, q_time>>
    /\ UNCHANGED <<transVars, shapeVars, genVars, callVars>>

\* get_local_barriers on the tile lengths of the configuration, as
\* estimated_exec_time calls it; nquad/0 raises ZeroDivisionError
BarriersOfConfig ==
    /\ qpc = "built"
    /\ IF 0 \in { qcfg.matvec1_row_tile_length, qcfg.matvec1_col_tile_length,
                  qcfg.matvec2_row_tile_length, qcfg.matvec2_col_tile_length }
       THEN /\ qpc' = "raised"
            /\ UNCHANGED q_barriers
       ELSE /\ qpc' = "done"
            /\ q_barriers' = get_local_barriers(qcfg.matvec1_row_tile_length,
                                                qcfg.matvec1_col_tile_length,
                                                qcfg.matvec2_row_tile_length,
                                                qcfg.matvec2_col_tile_length)
    /\ UNCHANGED <<qcfg, q_warps, q_efficiency, q_time>>
    /\ UNCHANGED <<transVars, shapeVars, genVars, callVars>>

NextConfig == NewTilingConfiguration \/ BarriersOfConfig

SpecConfig == InitCost /\ [][NextConfig]_vars

-----------------------------------------------------------------------------
(* AutoTiler.__call__                                                      *)
(*                                                                         *)
(* Device buffers are numbered; mem[b] is what buffer b holds: 0 for the   *)
(* caller's data, k > 0 for data last written by a launch of candidate k.  *)
(* args[2:] are the buffers 1..Len(written); written[i] tells whether the  *)
(* kernel writes argument i.                                               *)
(*                                                                         *)
(* tiled_transform is called by name; the loop is modelled against a       *)
(* callee that either returns a kernel or raises.  As the function stands  *)
(* in this file it raises on every path (the assertion after the stage     *)
(* tagging, and an unconditional raise after the thread split), which is   *)
(* the behaviour raised = TRUE at the first call.                          *)
(***************************************************************************)

\* the kernels' argument lists: which of args[2:] the kernel writes
ArgLayouts == { <<FALSE, TRUE>>, <<TRUE, TRUE>>, <<FALSE, FALSE>> }

\* per-launch times of an executable: its first cold launches take slow,
\* the others fast
ColdStarts == {0, 4, 5, 6}

Timings ==
    { [cold |-> c, slow |-> sl, fast |-> f] :
        c \in ColdStarts, sl \in 1..MaxTime, f \in 1..MaxTime }

UsedTimings ==
    { t \in Timings : (t.cold = 0 /\ t.slow = t.fast)
                      \/ (t.cold > 0 /\ t.slow > t.fast) }

\* the elapsed time of launch n of an executable with timing t
ElapsedOf(t, n) == IF n <= t.cold THEN t.slow ELSE t.fast

\* lines 855-871
CopyArgs ==
    /\ pc = "start"
    /\ best_performing_time' = Inf
    /\ best_performing_config' = None
    /\ mem' = [b \in (DOMAIN mem)
                     \cup {Len(written) + i : i \in {j \in 1..Len(written) : written[j]}}
                 |-> IF b \in DOMAIN mem THEN mem[b] ELSE mem[b - Len(written)]]
    /\ copied_args' = [i \in 1..Len(written) |->
                          IF written[i] THEN Len(written) + i ELSE i]
    /\ pc' = "candidates"
    /\ UNCHANGED <<transVars, shapeVars, genVars, queryVars>>
    /\ UNCHANGED <<written, tiling_idx, kernel, round, runtimes, exec_time,
                   result, outstanding, timing, elapsed, transform_calls,
                   launch_count, time_log, first_seen>>

\* (C2) as TransformCandidate, but the exception is caught and the loop
\* goes on with the next candidate
TransformCandidate_Swallow ==
    /\ pc = "loop"
    /\ tiling_idx < Len(candidates)
    /\ tiling_idx' = tiling_idx + 1
    /\ \E raised \in BOOLEAN :
          /\ transform_calls' =
                Append(transform_calls,
                       [config |-> candidates[tiling_idx + 1],
                        raised |-> raised, in_loop |-> TRUE])
          /\ IF raised
             THEN pc' = "loop" /\ kernel' = kernel
             ELSE /\ pc' = "build"
                  /\ kernel' = [config |-> candidates[tiling_idx + 1],
                                build |-> Len(transform_calls) + 1]
    /\ UNCHANGED <<transVars, shapeVars, genVars, queryVars>>
    /\ UNCHANGED <<written, mem, copied_args, round, runtimes, exec_time,
                   best_performing_time, best_performing_config, result,
                   outstanding, timing, elapsed, launch_count, time_log,
                   first_seen>>

\* lines 875-878: the next tiling_config of the loop is handed to
\* tiled_transform, which returns a kernel or raises; nothing catches
TransformCandidate ==
    /\ pc = "loop"
    /\ tiling_idx < Len(candidates)
    /\ tiling_idx' = tiling_idx + 1
    /\ \E raised \in BOOLEAN :
          /\ transform_calls' =
                Append(transform_calls,
                       [config |-> candidates[tiling_idx + 1],
                        raised |-> raised, in_loop |-> TRUE])
          /\ IF raised
             THEN pc' = "error" /\ kernel' = kernel
             ELSE /\ pc' = "build"
                  /\ kernel' = [config |-> candidates[tiling_idx + 1],
                                build |-> Len(transform_calls) + 1]
    /\ UNCHANGED <<transVars, shapeVars, genVars, queryVars>>
    /\ UNCHANGED <<written, mem, copied_args, round, runtimes, exec_time,
                   best_performing_time, best_performing_config, result,
                   outstanding, timing, elapsed, launch_count, time_log,
                   first_seen>>

\* lines 879-893: code generation, grid and block sizes, SourceModule,
\* prepare, upload of extra_args, runtimes = []
BuildExecutable ==
    /\ pc = "build"
    /\ timing' \in UsedTimings
    /\ runtimes' = <<>>
    /\ elapsed' = <<>>
    /\ round' = 0
    /\ launch_count' = Append(launch_count, 0)
    /\ pc' = "launch"
    /\ UNCHANGED <<transVars, shapeVars, genVars, queryVars>>
    /\ UNCHANGED <<written, mem, copied_args, tiling_idx, kernel, exec_time,
                   best_performing_time, best_performing_config, result,
                   outstanding, transform_calls, time_log, first_seen>>

\* what the buffers passed to the kernel hold
PassedView == [i \in 1..Len(written) |-> mem[copied_args[i]]]

\* lines 896-900: start_evt.record(); start_evt.synchronize() waits for the
\* work issued before it; prepared_call issues the launch and returns
Launch ==
    /\ pc = "launch"
    /\ outstanding = 0
    /\ outstanding' = outstanding + 1
    /\ launch_count' = [launch_count EXCEPT ![tiling_idx] = @ + 1]
    /\ first_seen' = IF launch_count[tiling_idx] = 0
                     THEN Append(first_seen, PassedView)
                     ELSE first_seen
    /\ pc' = "end_sync"
    /\ UNCHANGED <<transVars, shapeVars, genVars, queryVars>>
    /\ UNCHANGED <<written, mem, copied_args, tiling_idx, kernel, round,
                   runtimes, exec_time, best_performing_time,
                   best_performing_config, result, timing, elapsed,
                   transform_calls, time_log>>

\* the device finishes the launch: the kernel has written the buffers of
\* its written arguments, and end_evt (recorded behind it) is reached
KernelCompletes ==
    /\ outstanding > 0
    /\ outstanding' = outstanding - 1
    /\ mem' = [b \in DOMAIN mem |->
                 IF \E i \in 1..Len(written) : written[i] /\ copied_args[i] = b
                 THEN tiling_idx ELSE mem[b]]
    /\ elapsed' = Append(elapsed, ElapsedOf(timing, Len(elapsed) + 1))
    /\ UNCHANGED <<transVars, shapeVars, genVars, queryVars>>
    /\ UNCHANGED <<pc, written, copied_args, tiling_idx, kernel, round,
                   runtimes, exec_time, best_performing_time,
                   best_performing_config, result, timing, transform_calls,
                   launch_count, time_log, first_seen>>

\* (C6) as EndSynchronize, but without waiting for the device
EndSynchronize_NoWait ==
    /\ pc = "end_sync"
    /\ pc' = "append"
    /\ UNCHANGED <<transVars, shapeVars, genVars, queryVars>>
    /\ UNCHANGED <<written, mem, copied_args, tiling_idx, kernel, round,
                   runtimes, exec_time, best_performing_time,
                   best_performing_config, result, outstanding, timing,
                   elapsed, transform_calls, launch_count, time_log,
                   first_seen>>

\* lines 901-902: end_evt.record(); end_evt.synchronize() returns once the
\* device has reached end_evt
EndSynchronize ==
    /\ pc = "end_sync"
    /\ outstanding = 0
    /\ pc' = "append"
    /\ UNCHANGED <<transVars, shapeVars, genVars, queryVars>>
    /\ UNCHANGED <<written, mem, copied_args, tiling_idx, kernel, round,
                   runtimes, exec_time, best_performing_time,
                   best_performing_config, result, outstanding, timing,
                   elapsed, transform_calls, launch_count, time_log,
                   first_seen>>

\* line 903, and the loop header of line 895
AppendRuntime ==
    /\ pc = "append"
    /\ Len(elapsed) > Len(runtimes)
    /\ runtimes' = Append(runtimes, elapsed[Len(runtimes) + 1])
    /\ round' = round + 1
    /\ pc' = IF round + 1 < nrounds THEN "launch" ELSE "mean"
    /\ UNCHANGED <<transVars, shapeVars, genVars, queryVars>>
    /\ UNCHANGED <<written, mem, copied_args, tiling_idx, kernel, exec_time,
                   best_performing_time, best_performing_config, result,
                   outstanding, timing, elapsed, transform_calls,
                   launch_count, time_log, first_seen>>

\* (C5) the mean with one warm-up sample too many kept
MeanAfterWarmup_OffByOne(rs) ==
    Rat(SumSeq(SubSeq(rs, nwarmup, Len(rs))), Len(rs) - nwarmup + 1)

\* np.mean(runtimes[nwarmup:])
MeanAfterWarmup(rs) ==
    Rat(SumSeq(SubSeq(rs, nwarmup + 1, Len(rs))), Len(rs) - nwarmup)

\* (C4) as RecordTime, but every candidate replaces the best one
RecordTime_KeepLast ==
    /\ pc = "mean"
    /\ \E t \in {MeanAfterWarmup(runtimes)} :
          /\ exec_time' = t
          /\ time_log' = Append(time_log, t)
          /\ best_performing_time' = t
          /\ best_performing_config' = candidates[tiling_idx]
    /\ pc' = "loop"
    /\ UNCHANGED <<transVars, shapeVars, genVars, queryVars>>
    /\ UNCHANGED <<written, mem, copied_args, tiling_idx, kernel, round,
                   runtimes, result, outstanding, timing, elapsed,
                   transform_calls, launch_count, first_seen>>

\* lines 905-912
RecordTime ==
    /\ pc = "mean"
    /\ \E t \in {MeanAfterWarmup(runtimes)} :
          /\ exec_time' = t
          /\ time_log' = Append(time_log, t)
          /\ IF RLess(t, best_performing_time)
             THEN /\ best_performing_time' = t
                  /\ best_performing_config' = candidates[tiling_idx]
             ELSE UNCHANGED <<best_performing_time, best_performing_config>>
    /\ pc' = "loop"
    /\ UNCHANGED <<transVars, shapeVars, genVars, queryVars>>
    /\ UNCHANGED <<written, mem, copied_args, tiling_idx, kernel, round,
                   runtimes, result, outstanding, timing, elapsed,
                   transform_calls, launch_count, first_seen>>

\* (C3) as FinalTransform, but without the check of the argument
FinalTransform_Unchecked ==
    /\ pc = "loop"
    /\ tiling_idx = Len(candidates)
    /\ transform_calls' =
          Append(transform_calls,
                 [config |-> best_performing_config,
                  raised |-> FALSE, in_loop |-> FALSE])
    /\ pc' = "returned"
    /\ result' = [config |-> best_performing_config,
                  build |-> Len(transform_calls) + 1]
    /\ UNCHANGED <<transVars, shapeVars, genVars, queryVars>>
    /\ UNCHANGED <<written, mem, copied_args, tiling_idx, kernel, round,
                   runtimes, exec_time, best_performing_time,
                   best_performing_config, outstanding, timing, elapsed,
                   launch_count, time_log, first_seen>>

\* lines 914-916: tiled_transform on best_performing_config.  It asserts that
\* its argument is a TilingConfiguration, so None raises; it is a function
\* of its arguments, so it returns for the configuration it returned for in
\* the loop
FinalTransform ==
    /\ pc = "loop"
    /\ tiling_idx = Len(candidates)
    /\ transform_calls' =
          Append(transform_calls,
                 [config |-> best_performing_config,
                  raised |-> (best_performing_config = None),
                  in_loop |-> FALSE])
    /\ IF best_performing_config = None
       THEN pc' = "error" /\ result' = result
       ELSE /\ pc' = "returned"
            /\ result' = [config |-> best_performing_config,
                          build |-> Len(transform_calls) + 1]
    /\ UNCHANGED <<transVars, shapeVars, genVars, queryVars>>
    /\ UNCHANGED <<written, mem, copied_args, tiling_idx, kernel, round,
                   runtimes, exec_time, best_performing_time,
                   best_performing_config, outstanding, timing, elapsed,
                   launch_count, time_log, first_seen>>

\* the kernel the tuner is run on
TunedShapes == { <<3, 6>> }

Init ==
    /\ \E s \in TunedShapes : nbasis = s[1] /\ nquad = s[2]
    /\ num_const_matrices = MaxConstMatrices
    /\ num_func_eval_vars = 1
    /\ num_candidate_knls \in 0..MaxCandidates
    /\ IdleGen /\ IdleQuery /\ IdleTrans
    /\ pc = "start"
    /\ written \in ArgLayouts
    /\ mem = [b \in 1..Len(written) |-> 0]
    /\ copied_args = <<>>
    /\ tiling_idx = 0 /\ kernel = None /\ round = 0 /\ runtimes = <<>>
    /\ exec_time = Inf
    /\ best_performing_time = Inf /\ best_performing_config = None
    /\ result = None
    /\ outstanding = 0 /\ timing = None /\ elapsed = <<>>
    /\ transform_calls = <<>> /\ launch_count = <<>> /\ time_log = <<>>
    /\ first_seen = <<>>

Next ==
    \/ CopyArgs
    \/ get_candiate_configs
    \/ TransformCandidate
    \/ BuildExecutable
    \/ Launch
    \/ KernelCompletes
    \/ EndSynchronize
    \/ AppendRuntime
    \/ RecordTime
    \/ FinalTransform

Spec == Init /\ [][Next]_vars


-----------------------------------------------------------------------------
(* Properties of AutoTiler.__call__ *)

Measured == 1..Len(time_log)

C2_RaiseAborts ==
    \A n \in 1..Len(transform_calls) :
        transform_calls[n].raised =>
            /\ pc = "error"
            /\ n = Len(transform_calls)
            /\ result = None
            /\ outstanding = 0
            /\ Len(launch_count) = n - 1
            /\ \A c \in 1..Len(launch_count) : launch_count[c] = 15

C2_Witness ==
    /\ pc = "error"
    /\ Len(transform_calls) = 2
    /\ transform_calls[2].raised /\ transform_calls[2].in_loop
    /\ Len(candidates) = 3

\* C3: when __call__ returns, what it returns is the transform of a
\* configuration of the shortlist get_candiate_configs produced in this run;
\* with an empty shortlist it does not return a result, it fails.
C3_ResultFromShortlist ==
    /\ pc = "returned" =>
          /\ gpc = "done"
          /\ candidates = Truncate(params, num_candidate_knls)
          /\ result # None
          /\ \E i \in 1..Len(candidates) : result.config = candidates[i]
    /\ (gpc = "done" /\ candidates = <<>>) =>
          /\ pc # "returned"
          /\ result = None
          /\ transform_calls # <<>> => pc = "error"

C3_Witness ==
    /\ pc = "returned"
    /\ Len(candidates) = 3
    /\ result.config = candidates[2]

\* C4: after the last candidate has been measured tiled_transform is called
\* exactly once more, on the candidate whose recorded mean time is the
\* minimum over the measured candidates, and the kernel of that last call,
\* not a kernel built in the loop, is what __call__ returns.
C4_FinalBuildOfFastest ==
    pc = "returned" =>
        /\ Len(time_log) = Len(candidates)
        /\ Len(transform_calls) = Len(candidates) + 1
        /\ \A n \in 1..Len(candidates) : transform_calls[n].in_loop
        /\ ~transform_calls[Len(transform_calls)].in_loop
        /\ result.build = Len(transform_calls)
        /\ result.config = transform_calls[Len(transform_calls)].config
        /\ kernel.build < result.build
        /\ \E i \in Measured :
              /\ candidates[i] = result.config
              /\ \A j \in Measured : RLeq(time_log[i], time_log[j])

C4_Witness ==
    /\ pc = "returned"
    /\ Len(candidates) = 3
    /\ result.config = candidates[2]
    /\ RLess(time_log[2], time_log[1])
    /\ RLess(time_log[2], time_log[3])

\* C5: every measured candidate is launched exactly 15 times, and the time
\* recorded for it is the mean of the elapsed times of its launches 6 to 15;
\* the elapsed times of launches 1 to 5 do not enter it.
C5_FifteenLaunchesMeanOfLastTen ==
    /\ \A c \in 1..Len(launch_count) : launch_count[c] <= 15
    /\ \A c \in Measured : launch_count[c] = 15
    /\ (pc = "loop" /\ tiling_idx >= 1) =>
          /\ Len(time_log) = tiling_idx
          /\ Len(elapsed) = 15
          /\ time_log[tiling_idx].num * 10
                = SumSeq(SubSeq(elapsed, 6, 15)) * time_log[tiling_idx].den

C5_Witness ==
    /\ pc = "loop" /\ tiling_idx = 2
    /\ timing.cold = 5 /\ timing.slow > timing.fast
    /\ time_log[2] = FromInt(timing.fast)

\* C6: every launch is followed by the blocking wait for its completion
\* before its elapsed time is read and before the next launch is issued: at
\* most one launch is in flight, and one is in flight only while the host
\* waits in end_evt.synchronize(); when the elapsed time is read the launch
\* it belongs to has completed.
C6_OneLaunchInFlight ==
    /\ outstanding <= 1
    /\ outstanding = 1 => pc = "end_sync"
    /\ pc = "append" => Len(elapsed) = Len(runtimes) + 1
    /\ pc = "launch" => Len(elapsed) = Len(runtimes)

C6_Witness ==
    /\ pc = "end_sync" /\ outstanding = 1
    /\ tiling_idx = 2 /\ round = 14

-----------------------------------------------------------------------------
(* Properties of get_candiate_configs *)

Footprint1(c) == c.matvec1_row_tile_length * c.matvec1_col_tile_length

Footprint2(c) == c.matvec2_row_tile_length * c.matvec2_col_tile_length

\* C7: the returned list has at most num_candidate_knls entries and is
\* ascending in estimated_exec_time.
C7_AtMostNSortedByTime ==
    gpc = "done" =>
        /\ Len(candidates) <= num_candidate_knls
        /\ \A i \in 1..(Len(candidates) - 1) :
              RLeq(estimated_exec_time(candidates[i]),
                   estimated_exec_time(candidates[i + 1]))

C7_Witness ==
    /\ gpc = "done"
    /\ Len(candidates) = 3 /\ Len(params) > 3
    /\ RLess(estimated_exec_time(candidates[1]),
             estimated_exec_time(candidates[2]))
    /\ RLess(estimated_exec_time(candidates[2]),
             estimated_exec_time(candidates[3]))

\* a tile shape obtained by ceiling-dividing the extents by divisors up to
\* the ceiling of their square roots, with footprints less than 20% apart
IsDivisorShape(c) ==
    /\ \E i \in 1..CeilSqrt(nbasis) : c.matvec1_col_tile_length = Ceil(nbasis, i)
    /\ \E j \in 1..CeilSqrt(nquad) : c.matvec1_row_tile_length = Ceil(nquad, j)
    /\ \E k \in 1..CeilSqrt(nbasis) : c.matvec2_row_tile_length = Ceil(nbasis, k)
    /\ \E l \in 1..CeilSqrt(nquad) : c.matvec2_col_tile_length = Ceil(nquad, l)
    /\ 10 * Abs(Footprint1(c) - Footprint2(c))
          < 2 * Max(Footprint1(c), Footprint2(c))

\* C8: every configuration built, and so every configuration returned, has
\* t1Col = ceil(nBasis/i), t1Row = ceil(nQuad/j), t2Row = ceil(nBasis/k),
\* t2Col = ceil(nQuad/l) for divisors up to the ceilings of the square
\* roots, and footprints that differ by less than 20% of the larger one.
C8_ShapesFromDivisorsWithin20Percent ==
    gpc = "done" =>
        /\ \A n \in 1..Len(params) : IsDivisorShape(params[n])
        /\ \A n \in 1..Len(candidates) : IsDivisorShape(candidates[n])

C8_Witness ==
    /\ gpc = "done"
    /\ \E n \in 1..Len(candidates) :
          Footprint1(candidates[n]) # Footprint2(candidates[n])

TileOf(c) ==
    << c.matvec1_row_tile_length, c.matvec1_col_tile_length,
       c.matvec2_row_tile_length, c.matvec2_col_tile_length >>

\* the entries of params built for a tile and a threads value
BuiltFor(tile, threads) ==
    { n \in 1..Len(params) :
        TileOf(params[n]) = tile /\ params[n].nthreads_per_cell = threads }

CellsOf(e) == { e.cells[m] : m \in 1..Len(e.cells) }

\* the configuration's cellsPerBlock is one of the allowed values and no
\* allowed value has a strictly smaller estimated time
IsBestOfAllowed(c, e) ==
    /\ c.ncells_per_block \in CellsOf(e)
    /\ \A x \in CellsOf(e) :
          RLeq(estimated_exec_time(c),
               estimated_exec_time(CandidateConfig(x, e.threads, TileOf(c))))

Entries == { threads_to_cells[n] : n \in 1..Len(threads_to_cells) }

TileSet == { tiles[n] : n \in 1..Len(tiles) }

\* C9 as stated: for each tile shape that passed the filter and each
\* threadsPerCell of the table exactly one configuration is built, with a
\* cellsPerBlock of the allowed list that minimizes the estimated time.
C9_ExactlyOnePerShapeAndThreads ==
    gpc = "done" =>
        \A tile \in TileSet : \A e \in Entries :
            /\ Cardinality(BuiltFor(tile, e.threads)) = 1
            /\ \A n \in BuiltFor(tile, e.threads) : IsBestOfAllowed(params[n], e)

\* C9 amended: for each tile shape that passed the filter and each
\* threadsPerCell of the table at most one configuration is built: exactly
\* one when some allowed cellsPerBlock has a smaller estimated time than the
\* placeholder cellsPerBlock 10000 (whose time is infinite here), none
\* otherwise; the one built has a cellsPerBlock of the allowed list that
\* minimizes the estimated time, and nothing else is built.
C9_OnePerViableShapeAndThreads ==
    gpc = "done" =>
        /\ \A tile \in TileSet : \A e \in Entries :
              /\ Cardinality(BuiltFor(tile, e.threads))
                    = IF \E x \in CellsOf(e) :
                            RLess(estimated_exec_time(
                                      CandidateConfig(x, e.threads, tile)),
                                  estimated_exec_time(
                                      CandidateConfig(10000, e.threads, tile)))
                      THEN 1 ELSE 0
              /\ \A n \in BuiltFor(tile, e.threads) :
                    IsBestOfAllowed(params[n], e)
        /\ \A n \in 1..Len(params) :
              /\ TileOf(params[n]) \in TileSet
              /\ \E e \in Entries : e.threads = params[n].nthreads_per_cell

\* a shape and threads value with two allowed cellsPerBlock values of
\* different finite times, and one with none of finite time
C9_Witness ==
    /\ gpc = "done"
    /\ \E n \in 1..Len(params) : \E e \in Entries :
          /\ e.threads = params[n].nthreads_per_cell
          /\ \E x \in CellsOf(e) :
                RLess(estimated_exec_time(params[n]),
                      estimated_exec_time(
                          CandidateConfig(x, e.threads, TileOf(params[n]))))
          /\ params[n].ncells_per_block # e.cells[1]
    /\ \E tile \in TileSet : \E e \in Entries : BuiltFor(tile, e.threads) = {}

-----------------------------------------------------------------------------
(* Properties of the cost model *)

\* C10: for every configuration with threadsPerCell >= 1, cellsPerBlock >= 1
\* and positive tile lengths the work efficiency is strictly greater than 0
\* and at most 1.
C10_EfficiencyInUnitInterval ==
    qpc = "done" =>
        /\ RLess(FromInt(0), q_efficiency)
        /\ RLeq(q_efficiency, FromInt(1))

\* C11: for threadsPerCell = 32 and cellsPerBlock = 1 (a block of exactly
\* one warp) the warp-fill ratio that get_work_efficiency computes is
\* exactly 1.
C11_WarpFillIsOneForFullWarp ==
    (qpc = "done" /\ qcfg.nthreads_per_cell = 32 /\ qcfg.ncells_per_block = 1)
        => warp_mismatch_factor(qcfg) = FromInt(1)

\* the least k with k * b >= a
LeastMultiple(a, b) == CHOOSE k \in 1..a : k * b >= a /\ (k - 1) * b < a

\* the four tile lengths of a configuration
TileLengthsOf(cfg) ==
    << cfg.matvec1_row_tile_length, cfg.matvec1_col_tile_length,
       cfg.matvec2_row_tile_length, cfg.matvec2_col_tile_length >>

\* C12: localBarriers is ceil(nQuad/t1Row)*ceil(nBasis/t1Col)
\* + ceil(nBasis/t2Row)*ceil(nQuad/t2Col); it is 2 for nQuad = 6, nBasis = 3
\* and the tile 6 x 3, 3 x 6; and it does not increase when one tile length
\* is increased with the other three held fixed.
C12_LocalBarriersFormulaAndMonotone ==
    qpc = "done" =>
        LET T == TileLengthsOf(qcfg)
        IN  /\ q_barriers
                 = LeastMultiple(nquad, T[1]) * LeastMultiple(nbasis, T[2])
                   + LeastMultiple(nbasis, T[3]) * LeastMultiple(nquad, T[4])
            /\ (nquad = 6 /\ nbasis = 3 /\ T = <<6, 3, 3, 6>>) => q_barriers = 2
            /\ \A p \in 1..4 : \A t \in (T[p] + 1)..(MaxQuad + 1) :
                  LET U == [T EXCEPT ![p] = t]
                  IN  get_local_barriers(U[1], U[2], U[3], U[4]) <= q_barriers

\* the example has been evaluated to 2, a count that the same tile with its
\* first row length halved exceeds
C12_Witness ==
    /\ qpc = "done"
    /\ nquad = 6 /\ nbasis = 3
    /\ TileLengthsOf(qcfg) = <<6, 3, 3, 6>>
    /\ q_barriers = 2
    /\ get_local_barriers(6, 3, 3, 6) < get_local_barriers(3, 3, 3, 6)

\* theoreticalWarpsPerSM * workEfficiency of the evaluated configuration
EffectiveWarps == RMul(FromInt(q_warps), q_efficiency)

\* C13: the estimated time is infinite exactly when the effective occupancy
\* (theoretical warps per SM times work efficiency) is zero; otherwise it is
\* finite, positive and equal to the local barriers divided by the effective
\* resident blocks, effective warps * 32 / (threadsPerCell * cellsPerBlock).
C13_InfiniteIffZeroOccupancy ==
    qpc = "done" =>
        /\ IsInf(q_time) <=> (q_warps = 0 \/ IsZero(q_efficiency))
        /\ ~IsInf(q_time) =>
              /\ RLess(FromInt(0), q_time)
              /\ RMul(q_time,
                      RMul(EffectiveWarps,
                           Rat(32, qcfg.nthreads_per_cell
                                       * qcfg.ncells_per_block)))
                    = FromInt(q_barriers)

\* a configuration of finite time whose efficiency is a proper fraction
C13_Witness ==
    /\ qpc = "done"
    /\ ~IsInf(q_time)
    /\ q_warps > 1
    /\ RLess(FromInt(0), q_efficiency)
    /\ q_efficiency.den > 2
    /\ qcfg.nthreads_per_cell * qcfg.ncells_per_block # 32

\* the shared-memory footprint of the evaluated configuration, in doubles
\* (8 bytes: 48 KB are 6000 doubles, 96 KB are 12000)
FootprintOf(cfg) ==
    num_const_matrices
        * Max(cfg.matvec1_row_tile_length * cfg.matvec1_col_tile_length,
              cfg.matvec2_row_tile_length * cfg.matvec2_col_tile_length)
    + nquad + num_func_eval_vars * nquad * cfg.ncells_per_block

\* C14: blocksPerSM is 0 exactly when the footprint exceeds the 48 KB
\* threshold; for every footprint at or below the threshold it is
\* floor(96 KB / footprint) capped at 32; and the result is that value times
\* floor(threadsPerCell * cellsPerBlock / 32).
C14_BlocksZeroOnlyAboveThreshold ==
    qpc = "done" =>
        LET S == FootprintOf(qcfg)
            blocks == IF S > 6000 THEN 0 ELSE Min(12000 \div S, 32)
        IN  /\ blocks_per_sm(qcfg) = 0 <=> S > 6000
            /\ S <= 6000 => blocks_per_sm(qcfg) = blocks
            /\ q_warps = blocks * ((qcfg.nthreads_per_cell
                                    * qcfg.ncells_per_block) \div 32)

-----------------------------------------------------------------------------
(* Properties of TilingConfiguration *)

\* C15: construction validates the fields, so that every TilingConfiguration
\* that exists, and every one the cost model is applied to, has its six
\* integer fields positive and its flags boolean.
C15_ConstructedConfigsArePositive ==
    qcfg # None =>
        /\ \A v \in { qcfg.ncells_per_block, qcfg.nthreads_per_cell,
                      qcfg.matvec1_row_tile_length,
                      qcfg.matvec1_col_tile_length,
                      qcfg.matvec2_row_tile_length,
                      qcfg.matvec2_col_tile_length } : v > 0
        /\ \A f \in { qcfg.load_coordinates_to_shared,
                      qcfg.load_input_to_shared, qcfg.load_mats_to_shared,
                      qcfg.load_quad_weights_to_shared,
                      qcfg.tiled_prefetch_of_inputs,
                      qcfg.tiled_prefetch_of_quad_weights } : f \in BOOLEAN

-----------------------------------------------------------------------------
(* Viability of the generated configurations *)

\* C19: every configuration of the returned list has a finite estimated
\* time, a (threadsPerCell, cellsPerBlock) pair of the table, and does not
\* ask for coordinate staging; a (shape, threadsPerCell) pair whose allowed
\* cellsPerBlock values all have infinite time contributes no configuration;
\* no configuration has the placeholder cellsPerBlock 10000.
C19_ReturnedConfigsAreViable ==
    gpc = "done" =>
        /\ \A n \in 1..Len(candidates) :
              LET cfg == candidates[n]
              IN  /\ ~IsInf(estimated_exec_time(cfg))
                  /\ \E e \in Entries :
                        /\ e.threads = cfg.nthreads_per_cell
                        /\ cfg.ncells_per_block \in CellsOf(e)
                  /\ cfg.load_coordinates_to_shared = FALSE
                  /\ cfg.ncells_per_block # 10000
        /\ \A tile \in TileSet : \A e \in Entries :
              (\A x \in CellsOf(e) :
                  IsInf(estimated_exec_time(CandidateConfig(x, e.threads, tile))))
              => BuiltFor(tile, e.threads) = {}

\* a non-empty returned list, from a kernel where some shape and
\* threadsPerCell has only cellsPerBlock values of infinite time
C19_Witness ==
    /\ gpc = "done"
    /\ Len(candidates) > 1
    /\ \E tile \in TileSet : \E e \in Entries :
          \A x \in CellsOf(e) :
              IsInf(estimated_exec_time(CandidateConfig(x, e.threads, tile)))

-----------------------------------------------------------------------------
(* tiled_transform, up to the end of its stage tagging                     *)
(*                                                                         *)
(* An instruction is its within_inames and its tags.  Inames are wrapped   *)
(* as [iname |-> name] and Python's booleans as [bool |-> b], so that a    *)
(* set of the one can be intersected with a set of the other as Python     *)
(* does it (no boolean equals a string).  The kernels are those that pass  *)
(* the name inference of lines 111-168: one quadrature iname form_ip.      *)
(*                                                                         *)
(* The assertion after the tagging loop ends every call (see               *)
(* TaggingNeverSucceeds below); the statements of tiled_transform behind   *)
(* it are not reached and have no action here.                             *)
(***************************************************************************)

Iname(s) == [iname |-> s]

PyBool(b) == [bool |-> b]

\* quad_iname: the iname of the kernel that starts with 'form_ip'
quad_iname == "form_ip"

\* kernel.all_inames()
all_inames == {"n", "form_ip", "form_i", "form_j"}

\* iname.startswith('form_i')
StartsWith_form_i(s) == s \in {"form_ip", "form_i"}

\* set([iname.startswith('form_i') for iname in kernel.all_inames()])
doF_inames_in_quad_stage == { PyBool(StartsWith_form_i(s)) : s \in all_inames }

Insn(within, tags) ==
    [within_inames |-> { Iname(s) : s \in within }, tags |-> tags]

\* the instructions the kernels are made of: every instruction is within the
\* cell loop n; tags as TSFC sets them
InsnKinds ==
    { Insn({"n"} \cup W, {t}) :
        W \in SUBSET {"form_ip", "form_i"}, t \in {"quadrature", "basis"} }

\* a kernel of the six stages: Jacobian, initialisation, quadrature
\* reduction, wrap-up, basis reduction, scatter
FemKernel ==
    << Insn({"n"}, {"quadrature"}),
       Insn({"n", "form_ip"}, {"quadrature"}),
       Insn({"n", "form_ip", "form_i"}, {"quadrature"}),
       Insn({"n", "form_ip"}, {"quadrature"}),
       Insn({"n", "form_ip", "form_j"}, {"basis"}),
       Insn({"n", "form_j"}, {"scatter"}) >>

Kernels ==
    UNION { [1..n -> InsnKinds] : n \in 0..MaxInsns } \cup { FemKernel }

\* the configurations tiled_transform is called with: the tile covering the
\* 3 x 6 kernel, with and without the coordinates and the matrices staged
TransformConfigs ==
    { TilingConfiguration(7, 9, 6, 3, 3, 6, c, FALSE, m, TRUE, FALSE, FALSE) :
        c \in BOOLEAN, m \in BOOLEAN }

StageTags ==
    {"jacobi_eval", "quad_init", "quad_redn", "quad_wrap_up", "basis_redn"}

\* (C20) the loop body with done_with_jacobi_eval never set
TagStep_NoLatch(insn, d) ==
    LET inQuad == Iname(quad_iname) \in insn.within_inames
    IN  IF ~inQuad THEN [tag |-> "jacobi_eval", done |-> d]
        ELSE [tag |-> "quad_init", done |-> d]

\* one pass of the loop body (lines 186-222) for insn with the flags d: the
\* stage tag added to the instruction ("none": appended as it is) and the
\* flags afterwards
TagStep(insn, d) ==
    LET inQuad == Iname(quad_iname) \in insn.within_inames
        hasDoF == (doF_inames_in_quad_stage \cap insn.within_inames) # {}
        isBasis == "basis" \in insn.tags
        d1 == [d EXCEPT !.jacobi_eval = TRUE]
        d2 == [d1 EXCEPT !.quad_init = TRUE]
        d3 == [d2 EXCEPT !.quad_reduction = TRUE]
        d4 == [d3 EXCEPT !.quad_wrap_up = TRUE]
        d5 == [d4 EXCEPT !.basis_reduction = TRUE]
    IN  IF ~d.jacobi_eval /\ ~inQuad
            THEN [tag |-> "jacobi_eval", done |-> d]
        ELSE IF ~d1.quad_init /\ ~hasDoF
            THEN [tag |-> "quad_init", done |-> d1]
        ELSE IF ~d2.quad_reduction /\ hasDoF
            THEN [tag |-> "quad_redn", done |-> d2]
        ELSE IF ~d3.quad_wrap_up /\ ~isBasis
            THEN [tag |-> "quad_wrap_up", done |-> d3]
        ELSE IF ~d4.basis_reduction /\ inQuad
            THEN [tag |-> "basis_redn", done |-> d4]
        ELSE [tag |-> "none", done |-> d5]

\* insn.copy(tags=insn.tags | frozenset([tag])), or insn itself
Tagged(insn, tag) ==
    IF tag = "none" THEN insn
    ELSE [insn EXCEPT !.tags = insn.tags \cup {tag}]

\* the call, up to the start of the tagging loop (lines 264, 273, 177-183)
tiled_transform ==
    /\ tpc = "start"
    /\ IF tiling_config = None
       THEN /\ tpc' = "raised"
            /\ exc' = [type |-> "AssertionError", line |-> 264]
       ELSE /\ tpc' = "tagging"
            /\ UNCHANGED exc
    /\ new_insns' = <<>>
    /\ insn_idx' = 0
    /\ done' = NotDone
    /\ UNCHANGED <<tiling_config, instructions>>
    /\ UNCHANGED <<shapeVars, genVars, queryVars, callVars>>

\* for insn in kernel.instructions (lines 185-222)
TagInstruction ==
    /\ tpc = "tagging"
    /\ insn_idx < Len(instructions)
    /\ LET insn == instructions[insn_idx + 1]
           r == TagStep(insn, done)
       IN  /\ new_insns' = Append(new_insns, Tagged(insn, r.tag))
           /\ done' = r.done
    /\ insn_idx' = insn_idx + 1
    /\ UNCHANGED <<tpc, tiling_config, instructions, exc>>
    /\ UNCHANGED <<shapeVars, genVars, queryVars, callVars>>

\* assert done_with_basis_reduction (line 224)
AssertDoneWithBasisReduction ==
    /\ tpc = "tagging"
    /\ insn_idx = Len(instructions)
    /\ IF done.basis_reduction
       THEN /\ tpc' = "tagged"
            /\ UNCHANGED exc
       ELSE /\ tpc' = "raised"
            /\ exc' = [type |-> "AssertionError", line |-> 224]
    /\ UNCHANGED <<tiling_config, instructions, insn_idx, new_insns, done>>
    /\ UNCHANGED <<shapeVars, genVars, queryVars, callVars>>

InitTransform ==
    /\ \E s \in TunedShapes : nbasis = s[1] /\ nquad = s[2]
    /\ num_const_matrices = MaxConstMatrices
    /\ num_func_eval_vars = 1
    /\ num_candidate_knls = 0
    /\ IdleGen /\ IdleQuery /\ IdleCall
    /\ tpc = "start"
    /\ tiling_config \in TransformConfigs \cup {None}
    /\ instructions \in Kernels
    /\ insn_idx = 0 /\ new_insns = <<>> /\ done = NotDone /\ exc = None

NextTransform ==
    tiled_transform \/ TagInstruction \/ AssertDoneWithBasisReduction

SpecTransform == InitTransform /\ [][NextTransform]_vars

\* no instruction is ever found to carry a DoF iname of the quadrature
\* stage, so the loop never gets past quad_init and the assertion after it
\* fails in every call
TaggingNeverSucceeds ==
    /\ tpc # "tagged"
    /\ \A n \in 1..Len(new_insns) :
          new_insns[n].tags \cap StageTags \subseteq {"jacobi_eval", "quad_init"}

-----------------------------------------------------------------------------
(* Properties of tiled_transform *)

\* the call has ended
Ended == tpc \in {"raised", "tagged"}

\* C16: a call whose configuration asks for the coordinates to be staged in
\* shared memory ends by raising the unsupported-feature error
\* (NotImplementedError), without returning a kernel.
C16_CoordinateStagingRaisesUnsupported ==
    (Ended /\ tiling_config # None /\ tiling_config.load_coordinates_to_shared)
        => (tpc = "raised" /\ exc.type = "NotImplementedError")

\* a call with no unsupported path: a configuration that does not stage the
\* coordinates, whose column tile lengths are the full extents, on the
\* kernel of the six stages with its single input field
SupportedCall ==
    /\ tiling_config # None
    /\ ~tiling_config.load_coordinates_to_shared
    /\ tiling_config.matvec1_col_tile_length = nbasis
    /\ tiling_config.matvec2_col_tile_length = nquad
    /\ instructions = FemKernel

\* C17: a call with no unsupported path does not fail: it runs through to
\* the return of the pair (kernel, args_to_make_global).
C17_SupportedCallReturns ==
    SupportedCall => tpc # "raised"

\* C18: for every configuration, whatever its staging flags, the call gets
\* through its dependency step (lines 510-526), which leaves the reductions
\* dependent on the staging instructions, the wrap-up dependent on the
\* quadrature reductions and the reductions of a stage independent of each
\* other: the call does not end before that step is done.
C18_DependencyStepDone ==
    (tiling_config # None /\ tpc = "raised") => exc.line > 526

\* the stage tag of an instruction of new_insns
StageOf(insn) ==
    IF insn.tags \cap StageTags = {} THEN "none"
    ELSE CHOOSE t \in insn.tags \cap StageTags : TRUE

StageRank(t) ==
    CASE t = "jacobi_eval" -> 1
      [] t = "quad_init" -> 2
      [] t = "quad_redn" -> 3
      [] t = "quad_wrap_up" -> 4
      [] t = "basis_redn" -> 5
      [] OTHER -> 6

=============================================================================
